---- MODULE Spec2Model ----
(***************************************************************************)
(* Response pipeline of the Zero Trust Architecture prototype              *)
(* (src/response/response_system.py): the response policy                  *)
(* (evaluate_response_actions), the per-action executor                    *)
(* (execute_response_action and its four handlers) and the orchestrator    *)
(* loop (process_security_event), over a SQLAlchemy session, the           *)
(* committed database rows and the Redis keys the handlers write.          *)
(* Besides the pipeline (Spec, SpecQuarantine): the policy on its own      *)
(* (SpecPolicy), execute_response_action called directly (SpecExecute),    *)
(* two handlers racing on one device row (SpecConcurrent), the incident    *)
(* service (SpecIncident) and the incident gate (SpecGate).  The incident  *)
(* store is an object of its own: the pipeline sees of it only whether     *)
(* create_incident raised.                                                 *)
(* Of the analysis engine (src/central_analysis/analysis_engine.py): the   *)
(* threat-intelligence table and its Redis cache (SpecIntel), the stored   *)
(* security events and their enrichment (SpecEvents), the risk score       *)
(* (SpecRisk) and the correlation of events (SpecCorrelate).               *)
(*                                                                         *)
(* Scores are fixed-point hundredths: 0.7 is 70, 0.9 is 90, 0.3 is 30.     *)
(***************************************************************************)
EXTENDS Integers, Sequences, FiniteSets, TLC

\* ---------------------------------------------------------------- bounds
\* number of events handed to process_security_event in one behaviour
MaxEvents == 1
\* number of quarantine events in one behaviour of SpecQuarantine
MaxQuarantines == 3
\* number of direct calls of execute_response_action in one behaviour of
\* SpecExecute
MaxExecutes == 2
\* number of calls on the incident service in one behaviour of SpecIncident
MaxCalls == 5

\* ----------------------------------------------------------------- enums
\* models.ResponseAction
ISOLATE_DEVICE == "isolate_device"
REVOKE_ACCESS == "revoke_access"
QUARANTINE == "quarantine"
ALERT_ADMIN == "alert_admin"
ResponseAction == {ISOLATE_DEVICE, REVOKE_ACCESS, QUARANTINE, ALERT_ADMIN}

\* models.ThreatLevel
ThreatLevel == {"low", "medium", "high", "critical"}

\* response_system.ResponseStatus
PENDING == "pending"
EXECUTING == "executing"
COMPLETED == "completed"
FAILED == "failed"
CANCELLED == "cancelled"
ResponseStatus == {PENDING, EXECUTING, COMPLETED, FAILED, CANCELLED}

\* ------------------------------------------------------- rows and inputs
\* primary keys of the rows of the devices / users / user_sessions tables
DeviceIds == {1}
UserIds == {1, 2}
SessionIds == {1, 2, 3}
\* user_sessions.user_id of each session row
SessionUser == <<1, 1, 2>>

\* event.device_id values: 1 is a device row, 2 references no row
EventDeviceIds == {1, 2}
\* event.user_id values: 0 stands for None (both are falsy in
\* `if event.user_id`), 1 is a user row, 3 references no row
NoUser == 0
EventUserIds == {NoUser, 1, 3}

\* analysis_results["risk_score"], around the thresholds 0.6, 0.7 and 0.9
RiskScores == {0, 60, 61, 70, 71, 90, 91}
\* len(analysis_results["threat_intel_matches"])
MatchCounts == {0, 1}
\* len(correlations)
CorrelationCounts == {0, 1}
\* Device.trust_score of the device row before the first event: a score
\* written by the monitoring service, from which a quarantine subtracts 0.3
\* once before it meets the floor
InitTrust == {45}
\* Device.trust_score of the row the two concurrent handlers work on
ConcurrentTrust == {0, 10, 45, 100}

Max(a, b) == IF a >= b THEN a ELSE b
Range(s) == {s[i] : i \in 1..Len(s)}

\* firewall:{device_id} values written by the handlers
NoPolicy == [action |-> "none", inbound |-> "none", outbound |-> "none"]
BlockAllPolicy == [action |-> "block_all", inbound |-> "deny", outbound |-> "deny"]
QuarantinePolicy == [action |-> "quarantine", inbound |-> "deny", outbound |-> "allow_53_80_443"]

VARIABLES
    db,          \* committed rows: devices, users, sessions, actions
    mem,         \* the Session's in-memory objects (pending changes included)
    sessFailed,  \* a database operation of this Session raised: until a
                 \* rollback, which this code never issues, the next raise too
    redis,       \* Redis keys: firewall, isolation, quarantine, access_revoked
    pc,          \* position of process_security_event
    evt,         \* the SecurityEvent being processed: device_id, user_id
    policyIn,    \* arguments of evaluate_response_actions (SpecPolicy)
    recommended, \* recommended_actions of evaluate_response_actions
    idx,         \* position of the for loop in recommended_actions
    cur,         \* index in db.actions of the record of the running action
    success,     \* the running handler's return value
    redisRaised, \* a Redis write of the running handler raised
    summary,     \* response_summary: incident_created, actions_executed,
                 \* actions_failed
    nEvents,     \* events processed so far
    selected     \* what evaluate_response_actions returns for the event being
                 \* processed, whether or not the call got as far as asking

\* IncidentResponseService and the incident gate of process_security_event
VARIABLES
    incidents,   \* self.incidents[incident_id] of the one incident id
    incidentKey, \* the Redis key incident:{incident_id}
    last,        \* the last call on the incident service, what it returned,
                 \* and whether every Redis write so far went through (clean)
    nCalls,      \* calls made so far; the clock behind datetime.utcnow()
    gateIn       \* event and analysis handed to process_security_event
                 \* (SpecGate)

\* two workers running a handler each on the same device row
VARIABLES
    wpc,         \* position of each worker in its handler
    wdev         \* the Device object each worker's Session loaded

\* the central analysis engine (central_analysis/analysis_engine.py) and
\* the endpoint that stores security events (main.py)
VARIABLES
    events,        \* committed rows of the security_events table, in the
                   \* order of their insertion
    objects,       \* the SecurityEvent objects of the caller's Session: what
                   \* event.confidence_score and event.raw_data read
    sessionBroken, \* a commit of the caller's Session raised, and so will
                   \* every later one: nothing here rolls it back
    iocs,          \* committed rows of the threat_intelligence table
    cache,         \* the Redis keys ioc:{ioc_type}:{ioc_value}
    clock,         \* datetime.utcnow(), in minutes
    ret,           \* the last call on the engine and what it returned
    telemetry      \* arguments of _calculate_risk_score (SpecRisk)

analysisVars == <<events, objects, sessionBroken, iocs, cache, clock, ret, telemetry>>

\* state of the incident service, of the workers and of the analysis engine
otherVars == <<incidents, incidentKey, last, nCalls, gateIn, wpc, wdev, analysisVars>>

\* state of the response pipeline
pipeVars == <<db, mem, sessFailed, redis, pc, evt, policyIn, recommended, idx,
              cur, success, redisRaised, summary, nEvents, selected>>

vars == <<db, mem, sessFailed, redis, pc, evt, policyIn, recommended, idx,
          cur, success, redisRaised, summary, nEvents, selected,
          incidents, incidentKey, last, nCalls, gateIn, wpc, wdev,
          events, objects, sessionBroken, iocs, cache, clock, ret, telemetry>>

\* ---------------------------------------------------------------- policy
\* evaluate_response_actions builds recommended_actions by appends, one
\* rule after the other.

\* the two thresholds with >= in place of >
ByRiskInclusive(risk_score) ==
    IF risk_score >= 90 THEN <<ISOLATE_DEVICE, ALERT_ADMIN>>
    ELSE IF risk_score >= 70 THEN <<QUARANTINE, ALERT_ADMIN>>
    ELSE <<>>

\* lines 349-357: if risk_score > 0.9 ... elif risk_score > 0.7
ByRisk(risk_score) ==
    IF risk_score > 90 THEN <<ISOLATE_DEVICE, ALERT_ADMIN>>
    ELSE IF risk_score > 70 THEN <<QUARANTINE, ALERT_ADMIN>>
    ELSE <<>>

\* the threat-intel rule without the check of event.user_id
WithThreatIntelAnyUser(actions, threat_intel_matches, user_id) ==
    IF threat_intel_matches > 0
    THEN Append(IF QUARANTINE \notin Range(actions) THEN Append(actions, QUARANTINE)
                ELSE actions, REVOKE_ACCESS)
    ELSE actions

\* lines 359-364: if threat_intel_matches
WithThreatIntel(actions, threat_intel_matches, user_id) ==
    IF threat_intel_matches > 0
    THEN LET withQuarantine == IF QUARANTINE \notin Range(actions)
                               THEN Append(actions, QUARANTINE) ELSE actions
         IN  IF user_id # NoUser THEN Append(withQuarantine, REVOKE_ACCESS)
             ELSE withQuarantine
    ELSE actions

\* lines 366-368: if ml_anomaly
WithAnomaly(actions, ml_anomaly) ==
    IF ml_anomaly THEN Append(actions, ALERT_ADMIN) ELSE actions

\* the threat-level rule for critical events only
WithThreatLevelCritical(actions, threat_level) ==
    IF threat_level = "critical" /\ ALERT_ADMIN \notin Range(actions)
    THEN Append(actions, ALERT_ADMIN) ELSE actions

\* lines 370-373: if event.threat_level in [HIGH, CRITICAL]
WithThreatLevel(actions, threat_level) ==
    IF threat_level \in {"high", "critical"} /\ ALERT_ADMIN \notin Range(actions)
    THEN Append(actions, ALERT_ADMIN) ELSE actions

evaluate_response_actions(risk_score, matches, ml_anomaly, user_id, threat_level) ==
    WithThreatLevel(
        WithAnomaly(
            WithThreatIntel(ByRisk(risk_score), matches, user_id),
            ml_anomaly),
        threat_level)

NoEvent == [device_id |-> 0, user_id |-> NoUser]
NoPolicyIn == [threat_level |-> "low", user_id |-> NoUser, risk_score |-> 0,
               threat_intel_matches |-> 0, ml_anomaly |-> FALSE]
EmptySummary == [incident_created |-> FALSE, actions_executed |-> <<>>,
                 actions_failed |-> <<>>]

\* the two handlers that run concurrently on one device row
Workers == {ISOLATE_DEVICE, QUARANTINE}
\* no Device object loaded yet
NoDevice == [is_quarantined |-> FALSE, trust_score |-> 0]

\* no call made yet on the incident service
NoCall == [op |-> "none", ok |-> FALSE, clean |-> TRUE]
NoGateIn == [threat_level |-> "low", risk_score |-> 0, correlations |-> <<>>,
             confidence_score |-> 0]

\* no call made yet on the analysis engine
NoReturn == [op |-> "none"]
NoTelemetry == [is_anomaly |-> FALSE, ml_confidence |-> 0, severities |-> <<>>,
                threat_matches |-> <<>>, compliance_status |-> <<>>]

\* empty tables, an empty cache, and no call made on the analysis engine
AnalysisIdle ==
    /\ events = <<>>
    /\ objects = <<>>
    /\ sessionBroken = FALSE
    /\ iocs = <<>>
    /\ cache = <<>>
    /\ clock = 0
    /\ ret = NoReturn
    /\ telemetry = NoTelemetry

\* the incident service has no incident and no worker has started
OtherIdle ==
    /\ AnalysisIdle
    /\ incidents = <<>>
    /\ incidentKey = <<>>
    /\ last = NoCall
    /\ nCalls = 0
    /\ gateIn = NoGateIn
    /\ wpc = [w \in Workers |-> "idle"]
    /\ wdev = [w \in Workers |-> NoDevice]

Init ==
    /\ \E t \in InitTrust :
         db = [devices  |-> [d \in DeviceIds |-> [is_quarantined |-> FALSE, trust_score |-> t]],
               users    |-> [u \in UserIds |-> TRUE],
               sessions |-> [s \in SessionIds |-> TRUE],
               actions  |-> <<>>]
    /\ mem = db
    /\ sessFailed = FALSE
    /\ redis = [firewall       |-> [d \in DeviceIds |-> NoPolicy],
                isolation      |-> [d \in DeviceIds |-> FALSE],
                quarantine     |-> [d \in DeviceIds |-> FALSE],
                access_revoked |-> [u \in UserIds |-> FALSE]]
    /\ pc = "idle"
    /\ evt = NoEvent
    /\ policyIn = NoPolicyIn
    /\ recommended = <<>>
    /\ idx = 0
    /\ cur = 0
    /\ success = FALSE
    /\ redisRaised = FALSE
    /\ summary = EmptySummary
    /\ nEvents = 0
    /\ selected = <<>>
    /\ OtherIdle

\* ------------------------------------------------------------- handlers
\* Outcome of a handler: its return value and the state it leaves.
Outcome(ok, m, d, r, f, rr) ==
    [success |-> ok, mem |-> m, db |-> d, redis |-> r, failed |-> f, redis_raised |-> rr]

\* A handler's first statement is a query: on a Session that needs a
\* rollback it raises, the handler's except returns False.
Unchanged(ok) == Outcome(ok, mem, db, redis, sessFailed, FALSE)

\* the reduction with the floor at 0.0
QuarantineTrustFloorZero(t) == Max(t - 30, 0)

\* line 500: device.trust_score = max(device.trust_score - 0.3, 0.1)
QuarantineTrust(t) == Max(t - 30, 10)

\* the isolation without the trust score
IsolatedKeepTrust(device) == [device EXCEPT !.is_quarantined = TRUE]

\* lines 437-438: device.is_quarantined = True; device.trust_score = 0.0
Isolated(device) == [device EXCEPT !.is_quarantined = TRUE, !.trust_score = 0]

\* The one fault a handler call can meet; the first raise ends the handler
\* in its except: return False.  "query": its first database query raises.
\* "setex1", "setex2": its first or second Redis write raises.  "commit":
\* its commit raises.  "reload": the reload of the expired row, which the
\* notification payload reads after the commit, raises.  "notify": the
\* notification service returns False.
Faults == {"none", "query", "setex1", "setex2", "commit", "reload", "notify"}

\* _isolate_device (the notification's result is discarded)
_isolate_device(fault) ==
    IF sessFailed THEN Unchanged(FALSE)
    ELSE IF fault = "query" THEN Outcome(FALSE, db, db, redis, TRUE, FALSE)
    ELSE IF evt.device_id \notin DeviceIds THEN Unchanged(FALSE)
    ELSE LET d == evt.device_id
             mem1 == [mem EXCEPT !.devices[d] = Isolated(@)]
             redis1 == [redis EXCEPT !.isolation[d] = TRUE]
             redis2 == [redis1 EXCEPT !.firewall[d] = BlockAllPolicy]
         IN  IF fault = "setex1" THEN Outcome(FALSE, mem1, db, redis, FALSE, TRUE)
             ELSE IF fault = "setex2" THEN Outcome(FALSE, mem1, db, redis1, FALSE, TRUE)
             ELSE IF fault = "commit" THEN Outcome(FALSE, db, db, redis2, TRUE, FALSE)
             ELSE IF fault = "reload" THEN Outcome(FALSE, mem1, mem1, redis2, TRUE, FALSE)
             ELSE Outcome(TRUE, mem1, mem1, redis2, FALSE, FALSE)

\* _quarantine_device (the notification's result is discarded)
_quarantine_device(fault) ==
    IF sessFailed THEN Unchanged(FALSE)
    ELSE IF fault = "query" THEN Outcome(FALSE, db, db, redis, TRUE, FALSE)
    ELSE IF evt.device_id \notin DeviceIds THEN Unchanged(FALSE)
    ELSE LET d == evt.device_id
             mem1 == [mem EXCEPT !.devices[d] =
                         [is_quarantined |-> TRUE,
                          trust_score |-> QuarantineTrust(mem.devices[d].trust_score)]]
             redis1 == [redis EXCEPT !.quarantine[d] = TRUE]
             redis2 == [redis1 EXCEPT !.firewall[d] = QuarantinePolicy]
         IN  IF fault = "setex1" THEN Outcome(FALSE, mem1, db, redis, FALSE, TRUE)
             ELSE IF fault = "setex2" THEN Outcome(FALSE, mem1, db, redis1, FALSE, TRUE)
             ELSE IF fault = "commit" THEN Outcome(FALSE, db, db, redis2, TRUE, FALSE)
             ELSE IF fault = "reload" THEN Outcome(FALSE, mem1, mem1, redis2, TRUE, FALSE)
             ELSE Outcome(TRUE, mem1, mem1, redis2, FALSE, FALSE)

\* every session of the table terminated, whoever its user is
TerminateEverySession(sessions, u) == [s \in SessionIds |-> FALSE]

\* lines 568-575: the active sessions with UserSession.user_id == user.id
\* get is_active = False
TerminateSessions(sessions, u) ==
    [s \in SessionIds |-> IF SessionUser[s] = u THEN FALSE ELSE sessions[s]]

\* _revoke_user_access: it has one Redis write, so "setex2" cannot happen
\* (the notification's result is discarded)
_revoke_user_access(fault) ==
    IF evt.user_id = NoUser THEN Unchanged(FALSE)
    ELSE IF sessFailed THEN Unchanged(FALSE)
    ELSE IF fault = "query" THEN Outcome(FALSE, db, db, redis, TRUE, FALSE)
    ELSE IF evt.user_id \notin UserIds THEN Unchanged(FALSE)
    ELSE LET u == evt.user_id
             mem1 == [mem EXCEPT !.users[u] = FALSE,
                                 !.sessions = TerminateSessions(@, u)]
             redis1 == [redis EXCEPT !.access_revoked[u] = TRUE]
         IN  IF fault = "setex1" THEN Outcome(FALSE, mem1, db, redis, FALSE, TRUE)
             ELSE IF fault = "commit" THEN Outcome(FALSE, db, db, redis1, TRUE, FALSE)
             ELSE IF fault = "reload" THEN Outcome(FALSE, mem1, mem1, redis1, TRUE, FALSE)
             ELSE Outcome(TRUE, mem1, mem1, redis1, FALSE, FALSE)

\* _alert_administrators: queries the device (event.device_id is set) and
\* the user, writes nothing, and returns what
\* NotificationService.send_notification returns
_alert_administrators(fault) ==
    IF sessFailed THEN Unchanged(FALSE)
    ELSE IF fault = "query" THEN Outcome(FALSE, db, db, redis, TRUE, FALSE)
    ELSE Unchanged(fault # "notify")

\* the if/elif dispatch of execute_response_action
RunHandler(action_type, fault) ==
    IF action_type = ISOLATE_DEVICE THEN _isolate_device(fault)
    ELSE IF action_type = QUARANTINE THEN _quarantine_device(fault)
    ELSE IF action_type = REVOKE_ACCESS THEN _revoke_user_access(fault)
    ELSE _alert_administrators(fault)

\* ------------------------------------------------------------- pipeline
\* the gate with the risk threshold included
should_create_incident_inclusive(threat_level, risk_score, correlations) ==
    \/ threat_level \in {"high", "critical"}
    \/ risk_score >= 60
    \/ correlations > 0

\* the gate of process_security_event, lines 777-781
should_create_incident(threat_level, risk_score, correlations) ==
    \/ threat_level \in {"high", "critical"}
    \/ risk_score > 60
    \/ correlations > 0

\* process_security_event up to the for loop, for an event and analysis
\* drawn from the given sets: a Session of its own, the incident gate, the
\* policy decision.  analysis_results is a local of the call: the loop
\* keeps the decision, and the event for the handlers.  create_incident
\* re-raises when its Redis write fails (incidentOk false): the outer
\* except returns the summary as it is, no action is evaluated or executed.
StartWith(devs, usrs, tls, rss, tms, ans) ==
    /\ pc = "idle"
    /\ \E dev \in devs, usr \in usrs, tl \in tls, rs \in rss, tm \in tms, an \in ans,
          cor \in CorrelationCounts, incidentOk \in BOOLEAN :
         /\ evt' = [device_id |-> dev, user_id |-> usr]
         /\ selected' = evaluate_response_actions(rs, tm, an, usr, tl)
         /\ IF should_create_incident(tl, rs, cor) /\ ~incidentOk
            THEN /\ recommended' = <<>>
                 /\ summary' = EmptySummary
                 /\ pc' = "done"
            ELSE /\ recommended' = evaluate_response_actions(rs, tm, an, usr, tl)
                 /\ summary' = [EmptySummary EXCEPT !.incident_created =
                                    should_create_incident(tl, rs, cor)]
                 /\ pc' = "loop"
    /\ idx' = 1
    /\ sessFailed' = FALSE
    /\ mem' = db
    /\ nEvents' = nEvents + 1
    /\ UNCHANGED <<db, redis, cur, success, redisRaised, policyIn>>
    /\ UNCHANGED otherVars

\* any event
Start ==
    /\ nEvents < MaxEvents
    /\ StartWith(EventDeviceIds, EventUserIds, ThreatLevel, RiskScores,
                 MatchCounts, BOOLEAN)

\* an event on the device row whose only containment decision is
\* quarantine: 0.7 < risk_score <= 0.9, no user
StartQuarantine ==
    /\ nEvents < MaxQuarantines
    /\ StartWith(DeviceIds, {NoUser}, {"low"}, {71, 90}, MatchCounts, {FALSE})

\* execute_response_action, lines 385-398: the record is added with status
\* executing and committed.  If the commit raises, the except block sets
\* the (unsaved) object to failed and commits again, which raises on the
\* Session that needs a rollback; process_security_event catches that and
\* lists the action as failed.
ExecBegin ==
    /\ pc = "loop"
    /\ idx <= Len(recommended)
    /\ \E commitOk \in BOOLEAN :
         LET rec == [action_type |-> recommended[idx], status |-> EXECUTING]
             mem1 == [mem EXCEPT !.actions = Append(@, rec)]
         IN  IF ~sessFailed /\ commitOk
             THEN /\ mem' = mem1
                  /\ db' = mem1
                  /\ cur' = Len(mem1.actions)
                  /\ pc' = "handler"
                  /\ UNCHANGED <<sessFailed, summary, idx>>
             ELSE /\ sessFailed' = TRUE
                  /\ mem' = db
                  /\ summary' = [summary EXCEPT !.actions_failed = Append(@, recommended[idx])]
                  /\ idx' = idx + 1
                  /\ UNCHANGED <<db, cur, pc>>
    /\ UNCHANGED <<redis, evt, policyIn, recommended, success, redisRaised, nEvents>>
    /\ UNCHANGED <<selected, otherVars>>

\* execute_response_action, lines 400-409: the handler of the action type
ExecHandler ==
    /\ pc = "handler"
    /\ \E fault \in Faults :
         LET out == RunHandler(recommended[idx], fault)
         IN  /\ success' = out.success
             /\ mem' = out.mem
             /\ db' = out.db
             /\ redis' = out.redis
             /\ sessFailed' = out.failed
             /\ redisRaised' = out.redis_raised
    /\ pc' = "finish"
    /\ UNCHANGED <<evt, policyIn, recommended, idx, cur, summary, nEvents>>
    /\ UNCHANGED <<selected, otherVars>>

\* the status written to every row of the table
StatusUpdateAllRows(actions, i, ok) ==
    [j \in 1..Len(actions) |->
        [actions[j] EXCEPT !.status = IF ok THEN COMPLETED ELSE FAILED]]

\* lines 412-413: response_action.status of the record of this call
StatusUpdate(actions, i, ok) ==
    [actions EXCEPT ![i].status = IF ok THEN COMPLETED ELSE FAILED]

\* execute_response_action, lines 411-425: the status is set from the
\* handler's result and committed, with everything else the Session holds.
\* If that commit raises, the except block sets failed in memory and its
\* own commit raises again: the row stays as committed before.
ExecFinish ==
    /\ pc = "finish"
    /\ \E commitOk \in BOOLEAN :
         LET mem1 == [mem EXCEPT !.actions = StatusUpdate(@, cur, success)]
         IN  IF ~sessFailed /\ commitOk
             THEN /\ mem' = mem1
                  /\ db' = mem1
                  /\ summary' = IF success
                        THEN [summary EXCEPT !.actions_executed = Append(@, recommended[idx])]
                        ELSE [summary EXCEPT !.actions_failed = Append(@, recommended[idx])]
                  /\ UNCHANGED sessFailed
             ELSE /\ sessFailed' = TRUE
                  /\ mem' = db
                  /\ summary' = [summary EXCEPT !.actions_failed = Append(@, recommended[idx])]
                  /\ UNCHANGED db
    /\ idx' = idx + 1
    /\ cur' = 0
    /\ redisRaised' = FALSE
    /\ pc' = "loop"
    /\ UNCHANGED <<redis, evt, policyIn, recommended, success, nEvents>>
    /\ UNCHANGED <<selected, otherVars>>

\* process_security_event after the loop: the summary is returned
Finish ==
    /\ pc = "loop"
    /\ idx > Len(recommended)
    /\ pc' = "done"
    /\ UNCHANGED <<db, mem, sessFailed, redis, evt, policyIn, recommended, idx,
                   cur, success, redisRaised, summary, nEvents>>
    /\ UNCHANGED <<selected, otherVars>>

\* the caller has the summary; the Session is closed
Return ==
    /\ pc = "done"
    /\ pc' = "idle"
    /\ evt' = NoEvent
    /\ recommended' = <<>>
    /\ idx' = 0
    /\ success' = FALSE
    /\ summary' = EmptySummary
    /\ sessFailed' = FALSE
    /\ mem' = db
    /\ selected' = <<>>
    /\ UNCHANGED <<db, redis, cur, redisRaised, nEvents, policyIn>>
    /\ UNCHANGED otherVars

Next == Start \/ ExecBegin \/ ExecHandler \/ ExecFinish \/ Finish \/ Return

Spec == Init /\ [][Next]_vars

\* repeated quarantine events on one device
NextQuarantine ==
    StartQuarantine \/ ExecBegin \/ ExecHandler \/ ExecFinish \/ Finish \/ Return

SpecQuarantine == Init /\ [][NextQuarantine]_vars

\* ------------------------------------- execute_response_action on its own
\* a caller hands execute_response_action any action type and any event,
\* on a Session of its own; the loop position stands for the one call, and
\* the summary for what the caller saw of it
StartExecute ==
    /\ nEvents < MaxExecutes
    /\ pc = "idle"
    /\ \E action_type \in ResponseAction, dev \in EventDeviceIds, usr \in EventUserIds :
         /\ evt' = [device_id |-> dev, user_id |-> usr]
         /\ recommended' = <<action_type>>
    /\ selected' = <<>>
    /\ summary' = EmptySummary
    /\ idx' = 1
    /\ pc' = "loop"
    /\ sessFailed' = FALSE
    /\ mem' = db
    /\ nEvents' = nEvents + 1
    /\ UNCHANGED <<db, redis, cur, success, redisRaised, policyIn>>
    /\ UNCHANGED otherVars

NextExecute ==
    StartExecute \/ ExecBegin \/ ExecHandler \/ ExecFinish \/ Finish \/ Return

SpecExecute == Init /\ [][NextExecute]_vars

\* ------------------------------------- two handlers on one device row
\* _isolate_device and _quarantine_device called at the same time for
\* events on the same device, each by a worker (thread or process) with a
\* Session of its own.  Neither handler takes a lock or selects the row
\* for update, so the steps of the two interleave at every access to the
\* database and to Redis: the query that loads the row, the setex of the
\* reason, the setex of the firewall policy, the commit.
ContendedDevice == 1

\* the fields the handler of worker w assigns to the Device it loaded
Assigned(w, device) ==
    IF w = ISOLATE_DEVICE THEN Isolated(device)
    ELSE [is_quarantined |-> TRUE, trust_score |-> QuarantineTrust(device.trust_score)]

\* the firewall policy the handler of worker w stores
PolicyOf(w) == IF w = ISOLATE_DEVICE THEN BlockAllPolicy ELSE QuarantinePolicy

\* the UPDATE a commit flushes: the unit of work writes the columns whose
\* assigned value differs from the loaded one, and leaves the others as
\* the row has them
Flushed(row, loaded, assigned) ==
    [is_quarantined |-> IF assigned.is_quarantined # loaded.is_quarantined
                        THEN assigned.is_quarantined ELSE row.is_quarantined,
     trust_score    |-> IF assigned.trust_score # loaded.trust_score
                        THEN assigned.trust_score ELSE row.trust_score]

\* db.query(Device).filter(...).first()
Load(w) ==
    /\ wpc[w] = "idle"
    /\ wdev' = [wdev EXCEPT ![w] = db.devices[ContendedDevice]]
    /\ wpc' = [wpc EXCEPT ![w] = "setex1"]
    /\ UNCHANGED <<pipeVars, incidents, incidentKey, last, nCalls, gateIn, analysisVars>>

\* redis_client.setex(isolation_key / quarantine_key, ...)
StoreReason(w) ==
    /\ wpc[w] = "setex1"
    /\ redis' = IF w = ISOLATE_DEVICE
                THEN [redis EXCEPT !.isolation[ContendedDevice] = TRUE]
                ELSE [redis EXCEPT !.quarantine[ContendedDevice] = TRUE]
    /\ wpc' = [wpc EXCEPT ![w] = "setex2"]
    /\ UNCHANGED <<db, mem, sessFailed, pc, evt, policyIn, recommended, idx, cur,
                   success, redisRaised, summary, nEvents, selected>>
    /\ UNCHANGED <<incidents, incidentKey, last, nCalls, gateIn, wdev, analysisVars>>

\* redis_client.setex(f"firewall:{device.device_id}", ...)
StoreFirewall(w) ==
    /\ wpc[w] = "setex2"
    /\ redis' = [redis EXCEPT !.firewall[ContendedDevice] = PolicyOf(w)]
    /\ wpc' = [wpc EXCEPT ![w] = "commit"]
    /\ UNCHANGED <<db, mem, sessFailed, pc, evt, policyIn, recommended, idx, cur,
                   success, redisRaised, summary, nEvents, selected>>
    /\ UNCHANGED <<incidents, incidentKey, last, nCalls, gateIn, wdev, analysisVars>>

\* db.commit()
Commit(w) ==
    /\ wpc[w] = "commit"
    /\ db' = [db EXCEPT !.devices[ContendedDevice] =
                  Flushed(@, wdev[w], Assigned(w, wdev[w]))]
    /\ mem' = db'
    /\ wpc' = [wpc EXCEPT ![w] = "done"]
    /\ UNCHANGED <<sessFailed, redis, pc, evt, policyIn, recommended, idx, cur,
                   success, redisRaised, summary, nEvents, selected>>
    /\ UNCHANGED <<incidents, incidentKey, last, nCalls, gateIn, wdev, analysisVars>>

NextConcurrent ==
    \E w \in Workers : Load(w) \/ StoreReason(w) \/ StoreFirewall(w) \/ Commit(w)

\* the device row starts with any trust score the monitoring service writes
InitConcurrent ==
    /\ \E t \in ConcurrentTrust :
         db = [devices  |-> [d \in DeviceIds |-> [is_quarantined |-> FALSE, trust_score |-> t]],
               users    |-> [u \in UserIds |-> TRUE],
               sessions |-> [s \in SessionIds |-> TRUE],
               actions  |-> <<>>]
    /\ mem = db
    /\ sessFailed = FALSE
    /\ redis = [firewall       |-> [d \in DeviceIds |-> NoPolicy],
                isolation      |-> [d \in DeviceIds |-> FALSE],
                quarantine     |-> [d \in DeviceIds |-> FALSE],
                access_revoked |-> [u \in UserIds |-> FALSE]]
    /\ pc = "idle"
    /\ evt = NoEvent
    /\ policyIn = NoPolicyIn
    /\ recommended = <<>>
    /\ idx = 0
    /\ cur = 0
    /\ success = FALSE
    /\ redisRaised = FALSE
    /\ summary = EmptySummary
    /\ nEvents = 0
    /\ selected = <<>>
    /\ OtherIdle

SpecConcurrent == InitConcurrent /\ [][NextConcurrent]_vars

\* ------------------------------------------------- the incident service
\* IncidentResponseService keeps each incident as a dict in self.incidents
\* and as JSON under the Redis key incident:{incident_id}.  A dict is a
\* function from its keys; the keys with constant values (incident_id,
\* title, description, created_at, device_id, user_id, source_events,
\* correlations) and the timestamps of timeline entries are left out.
\* One incident id is followed: uuid4 gives every incident its own.
IncidentId == 1

Min(a, b) == IF a <= b THEN a ELSE b
\* dict.get(key, default)
Get(dict, key, default) == IF key \in DOMAIN dict THEN dict[key] ELSE default
\* str() of an escalation level, for the f-strings
LevelStr(n) == <<"1", "2", "3", "4", "5", "6", "7", "8">>[n]

\* lines 244-257; correlations is the list of c.get("severity", "low")
_determine_incident_severity(threat_level, correlations) ==
    IF correlations # <<>> /\ "critical" \in Range(correlations) THEN "critical"
    ELSE IF correlations # <<>> /\ "high" \in Range(correlations) THEN "high"
    ELSE threat_level

\* lines 259-274
_calculate_priority(severity, confidence_score) ==
    LET severity_priority == [low |-> 1, medium |-> 2, high |-> 4, critical |-> 5]
        base_priority == severity_priority[severity]
    IN  IF confidence_score > 80 THEN Min(base_priority + 1, 5) ELSE base_priority

\* lines 276-285
_auto_assign_incident(severity) ==
    [low |-> "security_team", medium |-> "security_team",
     high |-> "security_admin", critical |-> "ciso"][severity]

\* the dict create_incident builds, lines 66-95
NewIncident(threat_level, confidence_score, correlations, now) ==
    LET incident_severity == _determine_incident_severity(threat_level, correlations)
    IN  [severity         |-> incident_severity,
         status           |-> "open",
         priority         |-> _calculate_priority(incident_severity, confidence_score),
         updated_at       |-> now,
         assigned_to      |-> _auto_assign_incident(incident_severity),
         timeline         |-> <<[action      |-> "incident_created",
                                 description |-> <<"Incident created from event">>,
                                 user        |-> "system"]>>,
         response_actions |-> <<>>,
         escalation_level |-> 0]

\* get_incident, lines 150-168: memory first, then Redis
Known(incident_id) == incident_id \in DOMAIN incidents \cup DOMAIN incidentKey
get_incident(incident_id) ==
    IF incident_id \in DOMAIN incidents THEN incidents[incident_id]
    ELSE incidentKey[incident_id]

\* lines 126-133: if "timeline_entry" in updates: incident["timeline"].append
WithEntry(incident, updates) ==
    IF "timeline_entry" \in DOMAIN updates
    THEN [incident EXCEPT !["timeline"] = Append(@,
            [action      |-> Get(updates, "action", "update"),
             description |-> updates["timeline_entry"],
             user        |-> Get(updates, "user", "system")])]
    ELSE incident

\* lines 122-133: incident.update(updates), updated_at, the timeline entry
Updated(incident, updates, now) ==
    WithEntry([(updates @@ incident) EXCEPT !["updated_at"] = now], updates)

\* update_incident as called by op, lines 114-148.  The dict in
\* self.incidents is changed in place before the Redis write: when setex
\* raises the call returns False and the change stays in memory.
Update(op, updates, setexOk) ==
    /\ nCalls < MaxCalls
    /\ nCalls' = nCalls + 1
    /\ IF Known(IncidentId)
       THEN LET incident == Updated(get_incident(IncidentId), updates, nCalls')
            IN  /\ incidents' = (IncidentId :> incident)
                /\ incidentKey' = IF setexOk THEN (IncidentId :> incident)
                                  ELSE incidentKey
                /\ last' = [op |-> op, ok |-> setexOk, clean |-> last.clean /\ setexOk]
       ELSE /\ last' = [op |-> op, ok |-> FALSE, clean |-> last.clean]
            /\ UNCHANGED <<incidents, incidentKey>>
    /\ UNCHANGED <<pipeVars, gateIn, wpc, wdev, analysisVars>>

\* create_incident, lines 62-112: the dict is stored in self.incidents,
\* then written to Redis; when setex raises the call raises
create_incident ==
    /\ nCalls < MaxCalls
    /\ ~Known(IncidentId)
    /\ nCalls' = nCalls + 1
    /\ \E threat_level \in {"low", "critical"}, setexOk \in BOOLEAN :
         LET incident == NewIncident(threat_level, 50, <<>>, nCalls')
         IN  /\ incidents' = (IncidentId :> incident)
             /\ incidentKey' = IF setexOk THEN (IncidentId :> incident) ELSE incidentKey
             /\ last' = [op |-> "create_incident", ok |-> setexOk,
                          clean |-> last.clean /\ setexOk]
    /\ UNCHANGED <<pipeVars, gateIn, wpc, wdev, analysisVars>>

\* updates handed to update_incident by callers other than escalate and
\* close: what process_security_event passes (lines 816-820), a
\* reassignment, and an escalation level
UpdateInputs ==
    {[response_actions |-> <<ALERT_ADMIN>>,
      timeline_entry   |-> <<"Executed actions", ALERT_ADMIN>>,
      action           |-> "automated_response"],
     [assigned_to |-> "soc_lead"],
     [escalation_level |-> 0]}

update_incident ==
    \E updates \in UpdateInputs, setexOk \in BOOLEAN :
        Update("update_incident", updates, setexOk)

\* the assignee table with ciso from level 2 on
AssigneeCisoFromTwo(new_level) ==
    IF new_level = 1 THEN "security_admin" ELSE "ciso"

\* lines 204-210: escalation_assignments.get(new_level, "emergency_team")
Assignee(new_level) ==
    IF new_level = 1 THEN "security_admin"
    ELSE IF new_level = 2 THEN "ciso"
    ELSE "emergency_team"

\* the updates escalate_incident builds, lines 200-218
Escalation(incident, reason) ==
    LET current_level == Get(incident, "escalation_level", 0)
        new_level == current_level + 1
    IN  [escalation_level |-> new_level,
         assigned_to      |-> Assignee(new_level),
         priority         |-> Min(Get(incident, "priority", 1) + 1, 5),
         timeline_entry   |-> <<"Incident escalated to level", LevelStr(new_level), reason>>,
         action           |-> "escalated"]

\* escalate_incident, lines 193-224
escalate_incident ==
    \E reason \in {"timeout"}, setexOk \in BOOLEAN :
        IF Known(IncidentId)
        THEN Update("escalate_incident",
                    Escalation(get_incident(IncidentId), reason), setexOk)
        ELSE /\ nCalls < MaxCalls
             /\ nCalls' = nCalls + 1
             /\ last' = [op |-> "escalate_incident", ok |-> FALSE, clean |-> last.clean]
             /\ UNCHANGED <<incidents, incidentKey, pipeVars, gateIn, wpc, wdev, analysisVars>>

\* resolutions handed to close_incident
Resolutions == {"contained", "false_positive"}

\* close_incident, lines 226-242
close_incident ==
    \E resolution \in Resolutions, setexOk \in BOOLEAN :
        Update("close_incident",
               [status         |-> "closed",
                resolution     |-> resolution,
                closed_at      |-> nCalls + 1,
                timeline_entry |-> <<"Incident closed", resolution>>,
                action         |-> "closed",
                user           |-> "system"],
               setexOk)

NextIncident ==
    create_incident \/ update_incident \/ escalate_incident \/ close_incident

SpecIncident == Init /\ [][NextIncident]_vars

\* ------------------------------------------- the incident gate on its own
\* correlations handed to process_security_event, as the list of their
\* severities
CorrelationLists == {<<>>, <<"low">>, <<"medium">>, <<"high">>, <<"critical">>,
                     <<"high", "critical">>}
\* event.confidence_score, around the 0.8 of _calculate_priority
ConfidenceScores == {50, 80, 81}

\* event, analysis and correlations: every risk score in hundredths
GateInputs ==
    [threat_level : ThreatLevel, risk_score : 0..100,
     correlations : CorrelationLists, confidence_score : ConfidenceScores]

InitGate ==
    /\ db = [devices  |-> [d \in DeviceIds |-> [is_quarantined |-> FALSE, trust_score |-> 0]],
             users    |-> [u \in UserIds |-> TRUE],
             sessions |-> [s \in SessionIds |-> TRUE],
             actions  |-> <<>>]
    /\ mem = db
    /\ sessFailed = FALSE
    /\ redis = [firewall       |-> [d \in DeviceIds |-> NoPolicy],
                isolation      |-> [d \in DeviceIds |-> FALSE],
                quarantine     |-> [d \in DeviceIds |-> FALSE],
                access_revoked |-> [u \in UserIds |-> FALSE]]
    /\ pc = "idle"
    /\ evt = NoEvent
    /\ policyIn = NoPolicyIn
    /\ recommended = <<>>
    /\ idx = 0
    /\ cur = 0
    /\ success = FALSE
    /\ redisRaised = FALSE
    /\ summary = EmptySummary
    /\ nEvents = 0
    /\ selected = <<>>
    /\ incidents = <<>>
    /\ incidentKey = <<>>
    /\ last = NoCall
    /\ nCalls = 0
    /\ gateIn \in GateInputs
    /\ wpc = [w \in Workers |-> "idle"]
    /\ wdev = [w \in Workers |-> NoDevice]
    /\ AnalysisIdle

\* process_security_event, lines 777-786: create_incident is called when
\* the gate is open; the summary says incident_created when it returned
Gate ==
    /\ nCalls = 0
    /\ nCalls' = 1
    /\ \E setexOk \in BOOLEAN :
         IF should_create_incident(gateIn.threat_level, gateIn.risk_score,
                                   Len(gateIn.correlations))
         THEN LET incident == NewIncident(gateIn.threat_level, gateIn.confidence_score,
                                          gateIn.correlations, 1)
              IN  /\ incidents' = (IncidentId :> incident)
                  /\ incidentKey' = IF setexOk THEN (IncidentId :> incident)
                                    ELSE incidentKey
                  /\ last' = [op |-> "create_incident", ok |-> setexOk, clean |-> setexOk]
                  /\ summary' = [summary EXCEPT !.incident_created = setexOk]
         ELSE /\ last' = [op |-> "process_security_event", ok |-> TRUE, clean |-> TRUE]
              /\ UNCHANGED <<incidents, incidentKey, summary>>
    /\ UNCHANGED <<db, mem, sessFailed, redis, pc, evt, policyIn, recommended, idx,
                   cur, success, redisRaised, nEvents, selected>>
    /\ UNCHANGED <<gateIn, wpc, wdev, analysisVars>>

SpecGate == InitGate /\ [][Gate]_vars

\* ------------------------------------------------- the policy on its own
\* arguments of evaluate_response_actions: every risk score in hundredths
PolicyInputs ==
    [threat_level : ThreatLevel, user_id : EventUserIds, risk_score : 0..100,
     threat_intel_matches : MatchCounts, ml_anomaly : BOOLEAN]

InitPolicy ==
    /\ db = [devices  |-> [d \in DeviceIds |-> [is_quarantined |-> FALSE, trust_score |-> 0]],
             users    |-> [u \in UserIds |-> TRUE],
             sessions |-> [s \in SessionIds |-> TRUE],
             actions  |-> <<>>]
    /\ mem = db
    /\ sessFailed = FALSE
    /\ redis = [firewall       |-> [d \in DeviceIds |-> NoPolicy],
                isolation      |-> [d \in DeviceIds |-> FALSE],
                quarantine     |-> [d \in DeviceIds |-> FALSE],
                access_revoked |-> [u \in UserIds |-> FALSE]]
    /\ pc = "policy"
    /\ evt = NoEvent
    /\ policyIn \in PolicyInputs
    /\ recommended = <<>>
    /\ idx = 0
    /\ cur = 0
    /\ success = FALSE
    /\ redisRaised = FALSE
    /\ summary = EmptySummary
    /\ nEvents = 0
    /\ selected = <<>>
    /\ OtherIdle

\* one call of evaluate_response_actions
Evaluate ==
    /\ pc = "policy"
    /\ recommended' = evaluate_response_actions(policyIn.risk_score,
                          policyIn.threat_intel_matches, policyIn.ml_anomaly,
                          policyIn.user_id, policyIn.threat_level)
    /\ pc' = "decided"
    /\ UNCHANGED <<db, mem, sessFailed, redis, evt, policyIn, idx, cur, success,
                   redisRaised, summary, nEvents>>
    /\ UNCHANGED <<selected, otherVars>>

SpecPolicy == InitPolicy /\ [][Evaluate]_vars

TypeOK ==
    /\ pc \in {"idle", "loop", "handler", "finish", "done", "policy", "decided"}
    /\ \A d \in DeviceIds : db.devices[d].trust_score \in 0..100
    /\ \A i \in 1..Len(db.actions) : db.actions[i].status \in ResponseStatus

\* ------------------------------------------- threat intelligence service
\* number of minutes the clock advances in one behaviour of SpecIntel
MaxTicks == 2

\* sample_iocs of update_threat_intelligence, lines 214-247
SampleIocs ==
    << [ioc_type |-> "ip", ioc_value |-> "192.168.100.1",
        threat_type |-> "malware_c2", confidence |-> 90],
       [ioc_type |-> "domain", ioc_value |-> "malicious.example.com",
        threat_type |-> "phishing", confidence |-> 85],
       [ioc_type |-> "hash", ioc_value |-> "d41d8cd98f00b204e9800998ecf8427e",
        threat_type |-> "ransomware", confidence |-> 95],
       [ioc_type |-> "ip", ioc_value |-> "10.0.0.100",
        threat_type |-> "lateral_movement", confidence |-> 70] >>

\* cache_key = f"ioc:{ioc_type}:{ioc_value}"
CacheKey(ioc_type, ioc_value) == <<ioc_type, ioc_value>>
\* redis_client.setex(key, ttl, value)
Setex(c, key, value) ==
    [k \in DOMAIN c \cup {key} |-> IF k = key THEN value ELSE c[k]]
\* the key after its ttl of 3600 seconds
Without(c, key) == [k \in DOMAIN c \ {key} |-> c[k]]

\* ThreatIntelligence(**ioc_data): first_seen, last_seen and is_active take
\* their column defaults (models.py lines 167-169)
NewIoc(ioc_data, now) ==
    [ioc_type |-> ioc_data.ioc_type, ioc_value |-> ioc_data.ioc_value,
     threat_type |-> ioc_data.threat_type, confidence |-> ioc_data.confidence,
     first_seen |-> now, last_seen |-> now, is_active |-> TRUE]

\* .filter(...).first(): the index of the first row among those that pass
\* the filter, 0 for None
First(passing) ==
    IF passing # {}
    THEN CHOOSE j \in passing : \A k \in passing : j <= k
    ELSE 0

\* the loop body without the lookup: every indicator of the feed is added
UpsertAlwaysInsert(rows, committed, ioc_data, now) ==
    Append(rows, NewIoc(ioc_data, now))

\* lines 250-262: the row is looked up by ioc_value among the committed
\* rows (the Session does not flush before a query: autoflush=False,
\* database.py), then updated, or a new row is added
Upsert(rows, committed, ioc_data, now) ==
    LET SameValue(row) == row.ioc_value = ioc_data.ioc_value
        existing_ioc == First({j \in 1..Len(committed) : SameValue(committed[j])})
    IN  IF existing_ioc # 0
        THEN [rows EXCEPT ![existing_ioc].confidence = ioc_data.confidence,
                          ![existing_ioc].last_seen = now]
        ELSE Append(rows, NewIoc(ioc_data, now))

\* the rows of the Session after the first n indicators of the feed
RECURSIVE UpsertAll(_, _, _)
UpsertAll(committed, n, now) ==
    IF n = 0 THEN committed
    ELSE Upsert(UpsertAll(committed, n - 1, now), committed, SampleIocs[n], now)

\* the cache after the setex of the first n indicators (lines 265-270)
RECURSIVE CacheAll(_, _)
CacheAll(c, n) ==
    IF n = 0 THEN c
    ELSE Setex(CacheAll(c, n - 1),
               CacheKey(SampleIocs[n].ioc_type, SampleIocs[n].ioc_value),
               SampleIocs[n])

\* what can raise in update_threat_intelligence: the query or the setex of
\* the n-th indicator, or the commit; and then the rollback of line 278
UpdateFaults ==
    {[at |-> "none", n |-> 0, rollback |-> FALSE]}
    \cup {[at |-> "commit", n |-> 0, rollback |-> r] : r \in BOOLEAN}
    \cup {[at |-> a, n |-> n, rollback |-> r] :
              a \in {"query", "setex"}, n \in 1..Len(SampleIocs), r \in BOOLEAN}

\* update_threat_intelligence, lines 210-279: on an exception the Session
\* is rolled back, and the keys already written stay in the cache; an
\* exception of the rollback leaves the call
update_threat_intelligence ==
    /\ \E fault \in UpdateFaults :
         LET cached == CASE fault.at = "query" -> fault.n - 1
                         [] fault.at = "setex" -> fault.n - 1
                         [] OTHER -> Len(SampleIocs)
         IN  /\ cache' = CacheAll(cache, cached)
             /\ iocs' = IF fault.at = "none"
                        THEN UpsertAll(iocs, Len(SampleIocs), clock)
                        ELSE iocs
             /\ ret' = [op |-> "update_threat_intelligence",
                        result |-> fault.at = "none", raised |-> fault.rollback]
    /\ UNCHANGED <<events, objects, sessionBroken, clock, telemetry>>
    /\ UNCHANGED <<pipeVars, incidents, incidentKey, last, nCalls, gateIn, wpc, wdev>>

\* check_ioc returns None
NoIoc == <<>>

\* the dict built at lines 300-309
IocData(ioc) ==
    [k \in {"ioc_type", "ioc_value", "threat_type", "confidence",
            "first_seen", "last_seen"} |-> ioc[k]]

\* what can raise in check_ioc: the get, the query, or the setex
CheckFaults == {"none", "get", "query", "setex"}

\* the lookup with the miss written to the cache as well
CheckIocCachingMisses(c, rows, ioc_type, ioc_value, fault) ==
    LET cache_key == CacheKey(ioc_type, ioc_value)
        Wanted(row) == /\ row.ioc_type = ioc_type
                       /\ row.ioc_value = ioc_value
                       /\ row.is_active
        ioc == First({j \in 1..Len(rows) : Wanted(rows[j])})
    IN  IF fault = "get" THEN [value |-> NoIoc, cache |-> c, raised |-> TRUE]
        ELSE IF cache_key \in DOMAIN c
        THEN [value |-> c[cache_key], cache |-> c, raised |-> FALSE]
        ELSE IF fault = "query" THEN [value |-> NoIoc, cache |-> c, raised |-> TRUE]
        ELSE IF fault = "setex" THEN [value |-> NoIoc, cache |-> c, raised |-> TRUE]
        ELSE IF ioc = 0
        THEN [value |-> NoIoc, cache |-> Setex(c, cache_key, NoIoc), raised |-> FALSE]
        ELSE [value |-> IocData(rows[ioc]),
              cache |-> Setex(c, cache_key, IocData(rows[ioc])),
              raised |-> FALSE]

\* check_ioc, lines 281-319: what it returns, the cache it leaves, and
\* whether the except block was entered
check_ioc(c, rows, ioc_type, ioc_value, fault) ==
    LET cache_key == CacheKey(ioc_type, ioc_value)
        Wanted(row) == /\ row.ioc_type = ioc_type
                       /\ row.ioc_value = ioc_value
                       /\ row.is_active
        ioc == First({j \in 1..Len(rows) : Wanted(rows[j])})
    IN  IF fault = "get" THEN [value |-> NoIoc, cache |-> c, raised |-> TRUE]
        ELSE IF cache_key \in DOMAIN c
        THEN [value |-> c[cache_key], cache |-> c, raised |-> FALSE]
        ELSE IF fault = "query" THEN [value |-> NoIoc, cache |-> c, raised |-> TRUE]
        ELSE IF ioc = 0 THEN [value |-> NoIoc, cache |-> c, raised |-> FALSE]
        ELSE IF fault = "setex" THEN [value |-> NoIoc, cache |-> c, raised |-> TRUE]
        ELSE [value |-> IocData(rows[ioc]),
              cache |-> Setex(c, cache_key, IocData(rows[ioc])),
              raised |-> FALSE]

\* indicators looked up: the feed's, and one no feed has
UnknownIp == "8.8.8.8"
Lookups ==
    {CacheKey(SampleIocs[n].ioc_type, SampleIocs[n].ioc_value) : n \in {1, 4}}
    \cup {CacheKey("ip", UnknownIp)}

\* a call of check_ioc
Lookup ==
    /\ \E key \in Lookups, fault \in CheckFaults :
         LET out == check_ioc(cache, iocs, key[1], key[2], fault)
         IN  /\ cache' = out.cache
             /\ ret' = [op |-> "check_ioc", key |-> key, value |-> out.value,
                        raised |-> out.raised]
    /\ UNCHANGED <<events, objects, sessionBroken, iocs, clock, telemetry>>
    /\ UNCHANGED <<pipeVars, incidents, incidentKey, last, nCalls, gateIn, wpc, wdev>>

\* a key of the cache reaches its ttl (ioc_cache_ttl, line 190)
Expire ==
    /\ \E key \in DOMAIN cache : cache' = Without(cache, key)
    /\ UNCHANGED <<events, objects, sessionBroken, iocs, clock, ret, telemetry>>
    /\ UNCHANGED <<pipeVars, incidents, incidentKey, last, nCalls, gateIn, wpc, wdev>>

\* a minute passes
Tick ==
    /\ clock < MaxTicks
    /\ clock' = clock + 1
    /\ UNCHANGED <<events, objects, sessionBroken, iocs, cache, ret, telemetry>>
    /\ UNCHANGED <<pipeVars, incidents, incidentKey, last, nCalls, gateIn, wpc, wdev>>

NextIntel == update_threat_intelligence \/ Lookup \/ Expire \/ Tick

SpecIntel == Init /\ [][NextIntel]_vars

\* ------------------------------------------------- security event store
\* number of rows of the security_events table in one behaviour of
\* SpecEvents
MaxStored == 2

\* a field the request body does not have
Missing == "<missing>"
\* raw_data is None
NoRawData == <<>>
\* raw_data["name"] values: any(bad in process_name.lower() ...) holds for
\* the first (line 349-350)
ProcessNames == {"Mimikatz.exe", "notepad.exe"}
KnownBad(process_name) == process_name = "Mimikatz.exe"

\* SecurityEventCreate (models.py lines 222-229): event_type is required,
\* confidence_score is any float
Valid(event_data) == event_data.event_type # Missing

\* the row create_security_event inserts (main.py lines 281-290);
\* created_at and is_resolved take their column defaults (models.py 115-116)
NewEvent(event_data, now) ==
    [event_type |-> event_data.event_type, device_id |-> event_data.device_id,
     confidence_score |-> event_data.confidence_score,
     raw_data |-> event_data.raw_data, created_at |-> now, is_resolved |-> FALSE]

\* POST /api/events (main.py lines 275-303): a body that is not a
\* SecurityEventCreate is answered 422 before the handler runs; a raising
\* commit is answered 500 and inserts nothing
create_security_event(event_data, commitOk) ==
    /\ IF Valid(event_data) /\ commitOk
       THEN /\ events' = Append(events, NewEvent(event_data, clock))
            /\ objects' = Append(objects, NewEvent(event_data, clock))
            /\ ret' = [op |-> "create_security_event", status |-> "created",
                       event |-> Len(events) + 1]
       ELSE /\ ret' = [op |-> "create_security_event",
                       status |-> IF Valid(event_data) THEN "error" ELSE "rejected",
                       event |-> 0]
            /\ UNCHANGED <<events, objects>>
    /\ UNCHANGED <<sessionBroken, iocs, cache, clock, telemetry>>
    /\ UNCHANGED <<pipeVars, incidents, incidentKey, last, nCalls, gateIn, wpc, wdev>>

\* lines 332-342: the ip_reputation entry, and the cache check_ioc leaves
IpReputation(raw_data, fault) ==
    IF "remote_address" \in DOMAIN raw_data /\ raw_data["remote_address"] # ""
    THEN check_ioc(cache, iocs, "ip", raw_data["remote_address"], fault)
    ELSE [value |-> NoIoc, cache |-> cache, raised |-> FALSE]

\* lines 345-359: the malicious_process entry
MaliciousProcess(raw_data) ==
    "name" \in DOMAIN raw_data /\ KnownBad(raw_data["name"])

\* line 369: min(event.confidence_score + 0.2, 1.0)
Raised(confidence_score) ==
    IF confidence_score + 20 < 100 THEN confidence_score + 20 ELSE 100

\* lines 362-366: event.raw_data.update(enrichment_data)
Enriched(raw_data, entries) ==
    [k \in DOMAIN raw_data \cup {"threat_intel"} |->
        IF k = "threat_intel" THEN entries ELSE raw_data[k]]

\* enrich_security_event(db, event), lines 321-379, on the event of row i.
\* The commit writes the columns that were assigned: confidence_score, and
\* not raw_data, which is a plain JSON column changed in place; the object
\* is then expired and read again from its row.
enrich_security_event(i, fault, commitOk) ==
    LET event == objects[i]
        ip == IpReputation(event.raw_data, fault)
        entries == (IF ip.value # NoIoc THEN <<"ip_reputation">> ELSE <<>>)
                   \o (IF MaliciousProcess(event.raw_data)
                       THEN <<"malicious_process">> ELSE <<>>)
        enriched == [event EXCEPT !.raw_data = Enriched(event.raw_data, entries),
                                  !.confidence_score = Raised(event.confidence_score)]
    IN  /\ i \in 1..Len(objects)
        /\ IF event.raw_data = NoRawData
           THEN /\ ret' = [op |-> "enrich_security_event", event |-> i,
                           result |-> FALSE, matched |-> FALSE]
                /\ UNCHANGED <<events, objects, sessionBroken, cache>>
           ELSE /\ cache' = ip.cache
                /\ IF entries = <<>>
                   THEN /\ ret' = [op |-> "enrich_security_event", event |-> i,
                                   result |-> FALSE, matched |-> FALSE]
                        /\ UNCHANGED <<events, objects, sessionBroken>>
                   ELSE IF sessionBroken \/ ~commitOk
                   THEN /\ objects' = [objects EXCEPT ![i] = enriched]
                        /\ sessionBroken' = TRUE
                        /\ ret' = [op |-> "enrich_security_event", event |-> i,
                                   result |-> FALSE, matched |-> TRUE]
                        /\ UNCHANGED events
                   ELSE /\ events' = [events EXCEPT ![i].confidence_score =
                                                        enriched.confidence_score]
                        /\ objects' = [objects EXCEPT ![i] = events'[i]]
                        /\ ret' = [op |-> "enrich_security_event", event |-> i,
                                   result |-> TRUE, matched |-> TRUE]
                        /\ UNCHANGED sessionBroken
    /\ UNCHANGED <<iocs, clock, telemetry>>
    /\ UNCHANGED <<pipeVars, incidents, incidentKey, last, nCalls, gateIn, wpc, wdev>>

\* event.confidence_score of a request body: below 0, inside [0,1] below
\* and at the cap of the bump, and above 1
ConfidenceInputs == {-50, 50, 90, 150}
\* event.raw_data of a request body
RawDataInputs ==
    {NoRawData}
    \cup {[k \in {"remote_address"} |-> ip] : ip \in {SampleIocs[1].ioc_value, UnknownIp}}
    \cup {[k \in {"name"} |-> name] : name \in ProcessNames}
EventInputs ==
    [event_type : {"suspicious_process", Missing}, device_id : {1},
     confidence_score : ConfidenceInputs, raw_data : RawDataInputs]

Submit ==
    /\ Len(events) < MaxStored
    /\ \E event_data \in EventInputs, commitOk \in BOOLEAN :
         create_security_event(event_data, commitOk)

Enrich ==
    \E i \in 1..Len(objects), fault \in CheckFaults, commitOk \in BOOLEAN :
        enrich_security_event(i, fault, commitOk)

NextEvents == Submit \/ Enrich

\* the threat_intelligence table is empty, or holds the feed as a call of
\* update_threat_intelligence at minute 0 leaves it; no key is in the cache
InitEvents ==
    /\ \E t \in InitTrust :
         db = [devices  |-> [d \in DeviceIds |-> [is_quarantined |-> FALSE, trust_score |-> t]],
               users    |-> [u \in UserIds |-> TRUE],
               sessions |-> [s \in SessionIds |-> TRUE],
               actions  |-> <<>>]
    /\ mem = db
    /\ sessFailed = FALSE
    /\ redis = [firewall       |-> [d \in DeviceIds |-> NoPolicy],
                isolation      |-> [d \in DeviceIds |-> FALSE],
                quarantine     |-> [d \in DeviceIds |-> FALSE],
                access_revoked |-> [u \in UserIds |-> FALSE]]
    /\ pc = "idle"
    /\ evt = NoEvent
    /\ policyIn = NoPolicyIn
    /\ recommended = <<>>
    /\ idx = 0
    /\ cur = 0
    /\ success = FALSE
    /\ redisRaised = FALSE
    /\ summary = EmptySummary
    /\ nEvents = 0
    /\ selected = <<>>
    /\ incidents = <<>>
    /\ incidentKey = <<>>
    /\ last = NoCall
    /\ nCalls = 0
    /\ gateIn = NoGateIn
    /\ wpc = [w \in Workers |-> "idle"]
    /\ wdev = [w \in Workers |-> NoDevice]
    /\ events = <<>>
    /\ objects = <<>>
    /\ sessionBroken = FALSE
    /\ iocs \in {<<>>, UpsertAll(<<>>, Len(SampleIocs), 0)}
    /\ cache = <<>>
    /\ clock = 0
    /\ ret = NoReturn
    /\ telemetry = NoTelemetry

SpecEvents == InitEvents /\ [][NextEvents]_vars

\* ------------------------------------------------------------ risk score
\* length of the lists of a telemetry sample handed to
\* _calculate_risk_score: security events, threat matches, compliance flags
MaxSamples == 2

\* every list over S of at most n elements
SeqsUpTo(S, n) == UNION {[1..k -> S] : k \in 0..n}

RECURSIVE Sum(_)
Sum(s) == IF s = <<>> THEN 0 ELSE s[1] + Sum(Tail(s))

\* line 604 and 606: severity_weights.get(event.get("severity", "low"), 0.1),
\* in hundredths
SeverityWeight(severity) ==
    CASE severity = "low" -> 10
      [] severity = "medium" -> 30
      [] severity = "high" -> 60
      [] severity = "critical" -> 100
      [] OTHER -> 10

\* _calculate_risk_score, lines 592-622, in units of 0.0001; a mean is
\* rounded down to a hundredth. severities are the event.get("severity")
\* of the security events, threat_matches the match.get("confidence", 0)
\* in hundredths, compliance_status the values of the dict (True is 1).
_calculate_risk_score(is_anomaly, ml_confidence, severities, threat_matches, compliance_status) ==
    LET anomaly == IF is_anomaly THEN 30 * (100 - ml_confidence) ELSE 0
        event_risk ==
            Sum([i \in 1..Len(severities) |-> SeverityWeight(severities[i])])
            \div Max(Len(severities), 1)
        security == IF severities # <<>>
                    THEN 40 * Min(event_risk, 100) ELSE 0
        threat_risk == Sum(threat_matches) \div Max(Len(threat_matches), 1)
        threat == IF threat_matches # <<>> THEN 20 * threat_risk ELSE 0
        compliance_score ==
            (100 * Sum(compliance_status)) \div Max(Len(compliance_status), 1)
        compliance == IF compliance_status # <<>>
                      THEN 10 * (100 - compliance_score) ELSE 0
    IN  Min(anomaly + security + threat + compliance, 10000)

\* event["severity"] of a telemetry event: the four levels, and one that is
\* none of them
Severities == {"low", "medium", "high", "critical", "bogus"}
\* ml_confidence and match["confidence"], in hundredths
MlConfidences == {0, 50, 100}
MatchConfidences == {0, 90, 100}
\* values of telemetry_data["compliance_status"]: False, True, and the
\* number 2, which a telemetry body (Dict[str, Any], main.py line 241) can
\* carry
ComplianceValues == {0, 1, 2}

TelemetryInputs ==
    [is_anomaly : BOOLEAN, ml_confidence : MlConfidences,
     severities : SeqsUpTo(Severities, MaxSamples),
     threat_matches : SeqsUpTo(MatchConfidences, MaxSamples),
     compliance_status : SeqsUpTo(ComplianceValues, MaxSamples)]

InitRisk ==
    /\ \E t \in InitTrust :
         db = [devices  |-> [d \in DeviceIds |-> [is_quarantined |-> FALSE, trust_score |-> t]],
               users    |-> [u \in UserIds |-> TRUE],
               sessions |-> [s \in SessionIds |-> TRUE],
               actions  |-> <<>>]
    /\ mem = db
    /\ sessFailed = FALSE
    /\ redis = [firewall       |-> [d \in DeviceIds |-> NoPolicy],
                isolation      |-> [d \in DeviceIds |-> FALSE],
                quarantine     |-> [d \in DeviceIds |-> FALSE],
                access_revoked |-> [u \in UserIds |-> FALSE]]
    /\ pc = "idle"
    /\ evt = NoEvent
    /\ policyIn = NoPolicyIn
    /\ recommended = <<>>
    /\ idx = 0
    /\ cur = 0
    /\ success = FALSE
    /\ redisRaised = FALSE
    /\ summary = EmptySummary
    /\ nEvents = 0
    /\ selected = <<>>
    /\ incidents = <<>>
    /\ incidentKey = <<>>
    /\ last = NoCall
    /\ nCalls = 0
    /\ gateIn = NoGateIn
    /\ wpc = [w \in Workers |-> "idle"]
    /\ wdev = [w \in Workers |-> NoDevice]
    /\ events = <<>>
    /\ objects = <<>>
    /\ sessionBroken = FALSE
    /\ iocs = <<>>
    /\ cache = <<>>
    /\ clock = 0
    /\ ret = NoReturn
    /\ telemetry \in TelemetryInputs

\* analyze_telemetry, lines 551-554: the score of the sample
Score ==
    /\ ret = NoReturn
    /\ ret' = [op |-> "_calculate_risk_score",
               risk_score |-> _calculate_risk_score(
                   telemetry.is_anomaly, telemetry.ml_confidence,
                   telemetry.severities, telemetry.threat_matches,
                   telemetry.compliance_status)]
    /\ UNCHANGED <<events, objects, sessionBroken, iocs, cache, clock, telemetry>>
    /\ UNCHANGED <<pipeVars, incidents, incidentKey, last, nCalls, gateIn, wpc, wdev>>

SpecRisk == InitRisk /\ [][Score]_vars

\* ---------------------------------------------------- event correlation
\* number of rows of the security_events table in one behaviour of
\* SpecCorrelate
MaxRows == 2

\* correlation_rules, lines 32-57, in the order of the dict; time_window
\* in minutes
RuleNames == <<"lateral_movement", "data_exfiltration", "malware_outbreak",
               "reconnaissance">>
correlation_rules ==
    [rule_name \in Range(RuleNames) |->
        CASE rule_name = "lateral_movement" ->
                 [events |-> {"suspicious_network", "suspicious_process"},
                  time_window |-> 10, device_threshold |-> 2, severity |-> "high"]
          [] rule_name = "data_exfiltration" ->
                 [events |-> {"unusual_listening_port", "high_resource_usage"},
                  time_window |-> 15, device_threshold |-> 1, severity |-> "critical"]
          [] rule_name = "malware_outbreak" ->
                 [events |-> {"suspicious_process", "high_resource_usage"},
                  time_window |-> 30, device_threshold |-> 3, severity |-> "critical"]
          [] rule_name = "reconnaissance" ->
                 [events |-> {"suspicious_network", "unusual_listening_port"},
                  time_window |-> 5, device_threshold |-> 1, severity |-> "medium"]]

\* self.correlation_window, line 28, in minutes
correlation_window == 30
\* event.device_id is None
NoDeviceId == 0

\* lines 67-71: the rows the query returns, as their positions in the
\* table; no code of the repository sets is_resolved
RecentUnresolved(rows, now) ==
    {e \in 1..Len(rows) : /\ rows[e].created_at >= now - correlation_window
                          /\ rows[e].is_resolved = FALSE}

\* line 98
RelevantEvents(rows, queried, rule_config) ==
    {e \in queried : rows[e].event_type \in rule_config.events}

\* lines 105-111
WindowEvents(rows, relevant_events, rule_config, base_event) ==
    {e \in relevant_events :
        /\ rows[base_event].created_at <= rows[e].created_at
        /\ rows[e].created_at <= rows[base_event].created_at + rule_config.time_window}

\* the devices of the events, None counted as one of them
AffectedDevicesWithNone(rows, of) == {rows[e].device_id : e \in of}

\* lines 114 and 129: set(event.device_id for event in ... if event.device_id)
AffectedDevices(rows, of) == {rows[e].device_id : e \in of} \ {NoDeviceId}

\* the test of a window without the check of the required types
WindowMatchesAnyType(rows, window_events, rule_config) ==
    Cardinality(AffectedDevices(rows, window_events)) >= rule_config.device_threshold

\* lines 116-121
WindowMatches(rows, window_events, rule_config) ==
    /\ Cardinality(AffectedDevices(rows, window_events)) >= rule_config.device_threshold
    /\ rule_config.events \subseteq {rows[e].event_type : e \in window_events}

\* _find_pattern_events, lines 90-124: list(set(matching_events))
_find_pattern_events(rows, queried, rule_config) ==
    LET relevant_events == RelevantEvents(rows, queried, rule_config)
    IN  UNION {WindowEvents(rows, relevant_events, rule_config, base_event) :
                 base_event \in {b \in relevant_events :
                     WindowMatches(rows,
                         WindowEvents(rows, relevant_events, rule_config, b),
                         rule_config)}}

\* _create_correlation, lines 126-147
_create_correlation(rows, queried, rule_name, pattern_events) ==
    [pattern_name |-> rule_name,
     severity |-> correlation_rules[rule_name].severity,
     event_count |-> Cardinality(pattern_events),
     affected_devices |-> AffectedDevices(rows, pattern_events),
     event_ids |-> pattern_events]

\* lines 77-81: the correlations of the first n rules
RECURSIVE Correlations(_, _, _)
Correlations(rows, queried, n) ==
    IF n = 0 THEN <<>>
    ELSE LET pattern_events ==
                 _find_pattern_events(rows, queried, correlation_rules[RuleNames[n]])
             before == Correlations(rows, queried, n - 1)
         IN  IF pattern_events # {}
             THEN Append(before, _create_correlation(rows, queried, RuleNames[n],
                                                     pattern_events))
             ELSE before

\* correlate_events, lines 61-88, called at minute now (line 67): a
\* raising query returns []
correlate_events ==
    /\ \E queryOk \in BOOLEAN :
         ret' = [op |-> "correlate_events", raised |-> ~queryOk, now |-> clock,
                 correlations |->
                     IF queryOk
                     THEN Correlations(events, RecentUnresolved(events, clock),
                                       Len(RuleNames))
                     ELSE <<>>]
    /\ UNCHANGED <<events, objects, sessionBroken, iocs, cache, clock, telemetry>>
    /\ UNCHANGED <<pipeVars, incidents, incidentKey, last, nCalls, gateIn, wpc, wdev>>

\* the event types of the rules
EventTypes == UNION {correlation_rules[r].events : r \in Range(RuleNames)}
\* events of the correlation runs: every type on no device or on one of
\* three
CorrelationInputs ==
    [event_type : EventTypes, device_id : {NoDeviceId, 1, 2, 3},
     confidence_score : {50}, raw_data : {NoRawData}]

Report ==
    /\ Len(events) < MaxRows
    /\ \E event_data \in CorrelationInputs, commitOk \in BOOLEAN :
         create_security_event(event_data, commitOk)

\* minutes at which events come in and correlations run: inside, at and
\* past the 5 minutes of the shortest window, and past the 30 minutes of
\* the query
CorrelationTimes == {0, 5, 6, 36}
Advance ==
    /\ \E now \in CorrelationTimes : now > clock /\ clock' = now
    /\ UNCHANGED <<events, objects, sessionBroken, iocs, cache, ret, telemetry>>
    /\ UNCHANGED <<pipeVars, incidents, incidentKey, last, nCalls, gateIn, wpc, wdev>>

NextCorrelate == Report \/ Advance \/ correlate_events

SpecCorrelate == Init /\ [][NextCorrelate]_vars

\* ---------------------------------------------------------------- claims
Terminal == {COMPLETED, FAILED}
NoDuplicates(s) == \A i, j \in 1..Len(s) : i # j => s[i] # s[j]
\* the action execute_response_action is running, if any
Running(action_type) ==
    pc \in {"handler", "finish"} /\ recommended[idx] = action_type

\* C1: once execute_response_action has returned (or raised), the row it
\* committed is completed or failed: every committed ResponseAction row
\* other than the one of the call in progress has a terminal status.
C1_NeverLeftExecuting ==
    \A i \in 1..Len(db.actions) :
        (pc \in {"handler", "finish"} /\ i = cur) \/ db.actions[i].status \in Terminal

\* C2: a committed ResponseAction row is never removed, and its status only
\* changes pending->executing, executing->completed or executing->failed;
\* so a completed or failed row never changes again.
C2_StatusTransitions ==
    [][\A i \in 1..Len(db.actions) :
          /\ i <= Len(db.actions')
          /\ db.actions'[i].action_type = db.actions[i].action_type
          /\ \/ db.actions'[i].status = db.actions[i].status
             \/ <<db.actions[i].status, db.actions'[i].status>> \in
                    {<<PENDING, EXECUTING>>, <<EXECUTING, COMPLETED>>,
                     <<EXECUTING, FAILED>>}]_vars

\* C2 witness: a row reached a terminal status and a later action of the
\* pipeline has run to its end after it.
C2_Witness ==
    /\ Len(db.actions) >= 2
    /\ db.actions[1].status = COMPLETED
    /\ db.actions[2].status = FAILED

\* C3: the policy never selects both ISOLATE_DEVICE and QUARANTINE for one
\* event.
C3_NotIsolateAndQuarantine ==
    pc = "decided" =>
        ~(ISOLATE_DEVICE \in Range(recommended) /\ QUARANTINE \in Range(recommended))

\* C4: with no threat-intel match, no anomaly flag and threat_level low or
\* medium, the decision is exactly {ISOLATE_DEVICE, ALERT_ADMIN} when
\* risk_score > 0.9, exactly {QUARANTINE, ALERT_ADMIN} when
\* 0.7 < risk_score <= 0.9, and empty when risk_score <= 0.7.
C4_RiskOnlyDecision ==
    (/\ pc = "decided"
     /\ policyIn.threat_intel_matches = 0
     /\ ~policyIn.ml_anomaly
     /\ policyIn.threat_level \in {"low", "medium"})
    => /\ policyIn.risk_score > 90 =>
            Range(recommended) = {ISOLATE_DEVICE, ALERT_ADMIN}
       /\ (policyIn.risk_score > 70 /\ policyIn.risk_score <= 90) =>
            Range(recommended) = {QUARANTINE, ALERT_ADMIN}
       /\ policyIn.risk_score <= 70 => recommended = <<>>

\* C4 witness: a decision on risk alone at the upper edge of the quarantine
\* band, risk_score = 0.9.
C4_Witness ==
    /\ pc = "decided"
    /\ policyIn.threat_intel_matches = 0
    /\ ~policyIn.ml_anomaly
    /\ policyIn.threat_level = "medium"
    /\ policyIn.risk_score = 90
    /\ recommended = <<QUARANTINE, ALERT_ADMIN>>

\* C5: no action type appears twice in the policy decision, and
\* process_security_event attempts no action type twice for one event.
C5_NoActionTwice ==
    /\ NoDuplicates(recommended)
    /\ NoDuplicates(summary.actions_executed \o summary.actions_failed)

\* C6: REVOKE_ACCESS is selected if and only if threat_intel_matches is
\* non-empty and the event has a user.
C6_RevokeIffMatchAndUser ==
    pc = "decided" =>
        (REVOKE_ACCESS \in Range(recommended)
            <=> (policyIn.threat_intel_matches > 0 /\ policyIn.user_id # NoUser))

\* C6 witness: REVOKE_ACCESS selected for a user's event with a match.
C6_Witness ==
    /\ pc = "decided"
    /\ policyIn.threat_intel_matches > 0
    /\ policyIn.user_id # NoUser
    /\ REVOKE_ACCESS \in Range(recommended)

\* C7: ALERT_ADMIN is selected whenever the anomaly flag is set or
\* threat_level is high or critical, whatever risk_score and
\* threat_intel_matches are; and only if risk_score > 0.7, the anomaly
\* flag is set, or threat_level is high or critical.
C7_AlertAdmin ==
    pc = "decided" =>
        /\ (policyIn.ml_anomaly \/ policyIn.threat_level \in {"high", "critical"})
               => ALERT_ADMIN \in Range(recommended)
        /\ ALERT_ADMIN \in Range(recommended)
               => \/ policyIn.risk_score > 70
                  \/ policyIn.ml_anomaly
                  \/ policyIn.threat_level \in {"high", "critical"}

\* C7 witness: a high event of low risk, no anomaly: the alert comes from
\* the threat level alone.
C7_Witness ==
    /\ pc = "decided"
    /\ policyIn.threat_level = "high"
    /\ policyIn.risk_score <= 70
    /\ ~policyIn.ml_anomaly
    /\ recommended = <<ALERT_ADMIN>>

\* what C8 says isolate_device leaves behind for device d, record i
IsolationDone(d, i) ==
    /\ db'.devices[d].is_quarantined
    /\ db'.devices[d].trust_score = 0
    /\ redis'.firewall[d].action = "block_all"
    /\ redis'.firewall[d].inbound = "deny"
    /\ redis'.firewall[d].outbound = "deny"
    /\ db'.actions[i].status = COMPLETED

C9_QuarantineTrustFloor ==
    [][\A d \in DeviceIds :
          LET prev == db.devices[d].trust_score
              new == db'.devices[d].trust_score
              floor == IF prev - 30 >= 10 THEN prev - 30 ELSE 10
          IN  Running(QUARANTINE) =>
                /\ (pc = "handler" /\ success' /\ evt.device_id = d) => new = floor
                /\ new # prev => (new = floor /\ new >= 10)
                /\ prev >= 10 => new >= 10]_vars

\* C9 witness: a quarantine has succeeded on a device an earlier quarantine
\* had completed on, and the trust_score is at the floor 0.1.
C9_Witness ==
    /\ pc = "finish" /\ recommended[idx] = QUARANTINE /\ success
    /\ \E i \in 1..Len(db.actions) :
          /\ i # cur
          /\ db.actions[i] = [action_type |-> QUARANTINE, status |-> COMPLETED]
    /\ db.devices[evt.device_id].trust_score = 10

\* C10: no step of a response action raises a device's committed
\* trust_score.
C10_TrustNeverRaised ==
    [][\A d \in DeviceIds :
          db'.devices[d].trust_score <= db.devices[d].trust_score]_vars

\* the running action is revoke_access for an event with no user
RevokeNoUser ==
    /\ pc \in {"loop", "handler", "finish"}
    /\ idx <= Len(recommended)
    /\ recommended[idx] = REVOKE_ACCESS
    /\ evt.user_id = NoUser

\* C11: execute_response_action(revoke_access) for an event with no user
\* does not raise (its record is committed, and its status commit goes
\* through), its handler returns False, no committed user or session row
\* changes, and the record ends failed.
C11_RevokeNoUserFails ==
    [][RevokeNoUser =>
          /\ db'.users = db.users
          /\ db'.sessions = db.sessions
          /\ pc = "loop" => pc' = "handler"
          /\ pc = "handler" => ~success'
          /\ pc = "finish" => (~sessFailed' /\ db'.actions[cur].status = FAILED)]_vars

\* the committed rows of user u after a revocation: account inactive, none
\* of the user's sessions active, every other session as it was
Revoked(u) ==
    /\ ~db'.users[u]
    /\ \A s \in SessionIds :
          IF SessionUser[s] = u THEN ~db'.sessions[s]
          ELSE db'.sessions[s] = db.sessions[s]

\* C12: when the revoke_access handler returns success for an event with an
\* existing user, and when its record is then set to completed, the
\* committed account of that user is inactive, none of that user's sessions
\* is active and the sessions of other users are as they were.
C12_RevokeDeactivates ==
    [][(recommended # <<>> /\ idx <= Len(recommended)
            /\ recommended[idx] = REVOKE_ACCESS /\ evt.user_id \in UserIds) =>
          /\ (pc = "handler" /\ success') => Revoked(evt.user_id)
          /\ (pc = "finish" /\ db'.actions[cur].status = COMPLETED)
                => Revoked(evt.user_id)]_vars

\* C12 witness: revoke_access has completed for user 1: the account and
\* the sessions 1 and 2 are inactive, session 3 of user 2 is still active.
C12_Witness ==
    /\ pc = "loop" /\ idx > 1
    /\ recommended[idx - 1] = REVOKE_ACCESS
    /\ evt.user_id = 1
    /\ Len(db.actions) > 0
    /\ db.actions[Len(db.actions)] = [action_type |-> REVOKE_ACCESS, status |-> COMPLETED]
    /\ db.users = <<FALSE, TRUE>>
    /\ db.sessions = <<FALSE, FALSE, TRUE>>

\* C14: when process_security_event returns, every action the policy
\* selects for the event is listed in exactly one of actions_executed and
\* actions_failed of the summary.
C14_SummaryComplete ==
    pc = "done" =>
        \A a \in Range(selected) :
            (a \in Range(summary.actions_executed)) #
                (a \in Range(summary.actions_failed))

\* device row and firewall policy after isolate_device then quarantine
IsolateThenQuarantine(device) ==
    <<Assigned(QUARANTINE, Assigned(ISOLATE_DEVICE, device)), QuarantinePolicy>>

\* device row and firewall policy after quarantine then isolate_device
QuarantineThenIsolate(device) ==
    <<Assigned(ISOLATE_DEVICE, Assigned(QUARANTINE, device)), BlockAllPolicy>>

\* C13: when a concurrent isolate_device and quarantine on one device have
\* both ended, the committed row (is_quarantined, trust_score) and the
\* firewall policy together are what one of the two serial orders leaves,
\* for the row the two started from.
C13_Serializable ==
    (\A w \in Workers : wpc[w] = "done") =>
        \E t \in ConcurrentTrust :
            LET device == [is_quarantined |-> FALSE, trust_score |-> t]
            IN  <<db.devices[ContendedDevice], redis.firewall[ContendedDevice]>> \in
                    {IsolateThenQuarantine(device), QuarantineThenIsolate(device)}

\* the step is a call of op on the incident service
Called(op) == nCalls' = nCalls + 1 /\ last'.op = op
\* s is a prefix of t
IsPrefix(s, t) == Len(s) <= Len(t) /\ \A i \in 1..Len(s) : t[i] = s[i]

\* every Redis write of the incident service has gone through so far, this
\* step's included
NoSetexRaised == last'.clean

\* C15, where no Redis write raises: close_incident on an incident that is
\* already closed returns success and leaves the timeline, the resolution
\* and closed_at as they were.
C15_CloseIdempotent ==
    [][(Called("close_incident") /\ Known(IncidentId) /\ NoSetexRaised
            /\ get_incident(IncidentId)["status"] = "closed") =>
          /\ last'.ok
          /\ incidents'[IncidentId]["timeline"] = get_incident(IncidentId)["timeline"]
          /\ incidents'[IncidentId]["resolution"] = get_incident(IncidentId)["resolution"]
          /\ incidents'[IncidentId]["closed_at"] = get_incident(IncidentId)["closed_at"]]_vars

\* C16, where no Redis write raises: a closed incident stays closed, and
\* escalate_incident on a closed incident leaves escalation_level,
\* assigned_to and priority as they were.
C16_ClosedIsTerminal ==
    [][(Known(IncidentId) /\ NoSetexRaised
            /\ get_incident(IncidentId)["status"] = "closed") =>
          /\ incidents'[IncidentId]["status"] = "closed"
          /\ Called("escalate_incident") =>
                \A key \in {"escalation_level", "assigned_to", "priority"} :
                    incidents'[IncidentId][key] = get_incident(IncidentId)[key]]_vars

\* C17, where no Redis write raises: no call on an incident lowers its
\* escalation_level.
C17_EscalationNeverDecreases ==
    [][(Known(IncidentId) /\ NoSetexRaised) =>
          incidents'[IncidentId]["escalation_level"] >=
              get_incident(IncidentId)["escalation_level"]]_vars

\* C18, where no Redis write raises: every call keeps the timeline it found
\* as a prefix of the timeline it leaves, and every update, escalation,
\* closure or recording of the automated response that returns success
\* appends exactly one entry.
C18_TimelineAppendOnly ==
    [][(Known(IncidentId) /\ NoSetexRaised) =>
          LET before == get_incident(IncidentId)["timeline"]
              after == incidents'[IncidentId]["timeline"]
          IN  /\ IsPrefix(before, after)
              /\ (nCalls' = nCalls + 1 /\ last'.ok) => Len(after) = Len(before) + 1]_vars

\* C19: an escalate_incident that returns success raises escalation_level
\* by exactly 1, assigns security_admin at the new level 1, ciso at 2 and
\* emergency_team from 3 on, and sets priority to min(priority + 1, 5).
C19_Escalate ==
    [][(Called("escalate_incident") /\ last'.ok) =>
          LET before == get_incident(IncidentId)
              after == incidents'[IncidentId]
              level == after["escalation_level"]
          IN  /\ level = before["escalation_level"] + 1
              /\ after["assigned_to"] =
                    CASE level = 1 -> "security_admin"
                      [] level = 2 -> "ciso"
                      [] level >= 3 -> "emergency_team"
              /\ after["priority"] =
                    IF before["priority"] + 1 <= 5 THEN before["priority"] + 1 ELSE 5]_vars

\* C19 witness: a fourth escalation has succeeded on an incident created
\* with priority 1: level 4, emergency_team, priority at the cap 5.
C19_Witness ==
    /\ last.op = "escalate_incident" /\ last.ok
    /\ Known(IncidentId)
    /\ incidents[IncidentId]["severity"] = "low"
    /\ incidents[IncidentId]["escalation_level"] = 4
    /\ incidents[IncidentId]["assigned_to"] = "emergency_team"
    /\ incidents[IncidentId]["priority"] = 5

\* C20: after the gate of process_security_event, create_incident has been
\* called, and the incident is in the store, exactly when the event's
\* threat_level is high or critical, or risk_score > 0.6, or at least one
\* correlation was supplied.
C20_IncidentGate ==
    nCalls = 1 =>
        (Known(IncidentId) <=>
            \/ gateIn.threat_level \in {"high", "critical"}
            \/ gateIn.risk_score > 60
            \/ gateIn.correlations # <<>>)

\* C20 witness: an incident created for the risk score alone, just above
\* 0.6, on a low event without correlations.
C20_Witness ==
    /\ nCalls = 1
    /\ gateIn.threat_level = "low" /\ gateIn.risk_score = 61
    /\ gateIn.correlations = <<>>
    /\ Known(IncidentId)
    /\ incidents[IncidentId]["status"] = "open"

\* C21: a successful enrich_security_event of an event that matches threat
\* intelligence and has a score in [0,1] leaves its stored confidence_score
\* at min(score + 0.2, 1.0), and the same event enriched again right after
\* keeps the score it has: the 0.2 is added once.
C21_EnrichedOnce ==
    [][\A i \in 1..Len(events) :
          (/\ ret'.op = "enrich_security_event" /\ ret'.event = i /\ ret'.result
           /\ events[i].confidence_score \in 0..100)
          => IF ret = ret'
             THEN events'[i].confidence_score = events[i].confidence_score
             ELSE events'[i].confidence_score = Raised(events[i].confidence_score)]_vars

\* C22: the risk score computed for a telemetry sample is at least 0 and at
\* most 1, whatever its events, their severities and its compliance values.
C22_RiskInRange ==
    ret.op = "_calculate_risk_score" => ret.risk_score \in 0..10000

\* the correlations the last pass of correlate_events returned
Emitted == IF ret.op = "correlate_events" THEN Range(ret.correlations) ELSE {}

\* C23: every correlation the engine emits has affected_devices within the
\* devices of the events of its event_ids (None is not a device), and at
\* least device_threshold of them (so at least one).
C23_AffectedDevices ==
    \A c \in Emitted :
        /\ c.affected_devices
               \subseteq {events[e].device_id : e \in c.event_ids} \ {NoDeviceId}
        /\ Cardinality(c.affected_devices)
               >= correlation_rules[c.pattern_name].device_threshold
        /\ c.affected_devices # {}

\* a pass emitted lateral_movement, whose threshold is two devices
C23_Witness ==
    \E c \in Emitted :
        /\ c.pattern_name = "lateral_movement"
        /\ Cardinality(c.affected_devices) = 2

\* the events a pass at minute now reads: recent and unresolved (the query
\* of lines 67-71), none when the query raised
PassEvents ==
    IF ret.raised THEN {}
    ELSE {e \in 1..Len(events) : /\ events[e].created_at >= ret.now - correlation_window
                                 /\ ~events[e].is_resolved}
\* the events of the pass of the pattern's required types in the window
\* [anchor.created_at, anchor.created_at + window]
InWindow(pattern, anchor) ==
    {e \in PassEvents :
        /\ events[e].event_type \in correlation_rules[pattern].events
        /\ events[e].created_at >= events[anchor].created_at
        /\ events[e].created_at
               <= events[anchor].created_at + correlation_rules[pattern].time_window}
\* the anchors whose window holds every required type and at least
\* device_threshold distinct devices
MatchingAnchors(pattern) ==
    {anchor \in PassEvents :
        /\ events[anchor].event_type \in correlation_rules[pattern].events
        /\ \A type \in correlation_rules[pattern].events :
               \E e \in InWindow(pattern, anchor) : events[e].event_type = type
        /\ Cardinality({events[e].device_id : e \in InWindow(pattern, anchor)}
                       \ {NoDeviceId})
               >= correlation_rules[pattern].device_threshold}
\* the correlations of the last pass for a pattern, by position
EmittedFor(pattern) ==
    {n \in 1..Len(ret.correlations) : ret.correlations[n].pattern_name = pattern}

\* C24: a pass of correlate_events emits for each pattern exactly one
\* correlation when some anchor's window over the events it read holds
\* every required type and at least device_threshold devices, and none
\* otherwise; its event_ids are the union of the matching windows, each
\* event counted once. (A pass whose query raised read no event.)
C24_OnePerPattern ==
    ret.op = "correlate_events" =>
        \A pattern \in Range(RuleNames) :
            IF MatchingAnchors(pattern) = {}
            THEN EmittedFor(pattern) = {}
            ELSE /\ Cardinality(EmittedFor(pattern)) = 1
                 /\ \A n \in EmittedFor(pattern) :
                        /\ ret.correlations[n].event_ids =
                               UNION {InWindow(pattern, anchor) :
                                          anchor \in MatchingAnchors(pattern)}
                        /\ ret.correlations[n].event_count =
                               Cardinality(ret.correlations[n].event_ids)

\* a pass read a suspicious_network and a suspicious_process event, which
\* reconnaissance does not fire on, and emitted another pattern from two
\* matching windows that share their events
C24_Witness ==
    /\ ret.op = "correlate_events"
    /\ EmittedFor("reconnaissance") = {}
    /\ {events[e].event_type : e \in PassEvents}
           = {"suspicious_network", "suspicious_process"}
    /\ Cardinality(MatchingAnchors("lateral_movement")) = 2
    /\ \E n \in EmittedFor("lateral_movement") : ret.correlations[n].event_count = 2

\* the rows of the durable store for a (ioc_type, ioc_value) pair
RowsOf(rows, ioc_type, ioc_value) ==
    {j \in 1..Len(rows) : rows[j].ioc_type = ioc_type /\ rows[j].ioc_value = ioc_value}
\* a call of update_threat_intelligence that returned True
Upserted ==
    /\ ret'.op = "update_threat_intelligence" /\ ret'.result
    /\ (ret' # ret \/ iocs' # iocs)

\* C25: the durable store never holds two records for one
\* (ioc_type, ioc_value) pair, and an upsert that goes through leaves
\* exactly one record for each pair of the feed: a pair that had its record
\* keeps it, with the feed's confidence and last_seen set to now, and no
\* record is added for it; a pair that had none gets one.
C25_UpsertIdempotent ==
    [][/\ \A j, k \in 1..Len(iocs') :
              (iocs'[j].ioc_type = iocs'[k].ioc_type
               /\ iocs'[j].ioc_value = iocs'[k].ioc_value) => j = k
       /\ Upserted =>
              \A n \in 1..Len(SampleIocs) :
                  LET before == RowsOf(iocs, SampleIocs[n].ioc_type,
                                       SampleIocs[n].ioc_value)
                      after == RowsOf(iocs', SampleIocs[n].ioc_type,
                                      SampleIocs[n].ioc_value)
                  IN  /\ Cardinality(after) = 1
                      /\ before # {} => after = before
                      /\ \A j \in after :
                             /\ iocs'[j].confidence = SampleIocs[n].confidence
                             /\ iocs'[j].last_seen = clock
                             /\ j \in before => iocs'[j].first_seen = iocs[j].first_seen
       /\ (~Upserted) => iocs' = iocs]_vars

\* the feed was upserted a second time, at a later minute: the store holds
\* its four records, first seen at the first upsert and last seen now
C25_Witness ==
    /\ ret.op = "update_threat_intelligence" /\ ret.result
    /\ Len(iocs) = Len(SampleIocs)
    /\ \A j \in 1..Len(iocs) : iocs[j].first_seen < iocs[j].last_seen

\* the durable store holds an active record for the key
InStore(rows, key) ==
    \E j \in 1..Len(rows) :
        rows[j].ioc_type = key[1] /\ rows[j].ioc_value = key[2] /\ rows[j].is_active
\* the indicator a value of check_ioc or of the cache is about
IsIoc(value, key) ==
    value # NoIoc /\ value["ioc_type"] = key[1] /\ value["ioc_value"] = key[2]
\* a step of check_ioc: it leaves its return value, and never removes a key
LookedUp ==
    /\ ret'.op = "check_ioc"
    /\ (ret' # ret \/ DOMAIN cache' # DOMAIN cache)
    /\ DOMAIN cache \subseteq DOMAIN cache'

C27_StoredConfidenceValid ==
    \A i \in 1..Len(events) : events[i].confidence_score \in 0..100

\* isolate_device has completed (the one device row is the only device an
\* isolation can complete on)
IsolationCompleted ==
    \E i \in 1..Len(db.actions) :
        db.actions[i] = [action_type |-> ISOLATE_DEVICE, status |-> COMPLETED]

\* C28: once isolate_device has completed for a device, its firewall
\* policy stays deny-all and its committed trust_score stays 0, whatever
\* response actions follow.
C28_ContainmentKept ==
    IsolationCompleted =>
        \A d \in DeviceIds :
            /\ redis.firewall[d] = BlockAllPolicy
            /\ db.devices[d].trust_score = 0

\* C29: when the record of an isolate_device, quarantine or revoke_access
\* action is committed as failed, the committed device rows (is_quarantined,
\* trust_score), user rows (is_active) and session rows are the ones
\* committed before: a failed action persists none of its changes.
C29_FailedActionPersistsNothing ==
    [][(/\ pc = "finish"
        /\ recommended[idx] \in {ISOLATE_DEVICE, QUARANTINE, REVOKE_ACCESS}
        /\ cur \in 1..Len(db'.actions)
        /\ db.actions[cur].status = EXECUTING
        /\ db'.actions[cur].status = FAILED)
       => /\ db'.devices = db.devices
          /\ db'.users = db.users
          /\ db'.sessions = db.sessions]_vars


\* the order low < medium < high < critical
SeverityRank == [low |-> 1, medium |-> 2, high |-> 3, critical |-> 4]

\* C30: the severity of a created incident is never lower than the
\* threat_level of its triggering event, in the order low < medium < high <
\* critical, whatever the list of correlations.
C30_SeverityNotLowered ==
    (last.op = "create_incident" /\ last.ok /\ IncidentId \in DOMAIN incidents) =>
        SeverityRank[incidents[IncidentId]["severity"]] >= SeverityRank[gateIn.threat_level]

====
